---- MODULE Spec2Model ----
(***************************************************************************)
(* FunctionArrayMapped<Impl, Name>: the higher-order array function engine *)
(* of src/Functions/array/FunctionArrayMapped.h.                           *)
(*                                                                         *)
(* One call is modelled from type analysis (getLambdaArgumentTypes,        *)
(* getReturnTypeImpl) to execution (executeImpl) on one block.  The loops  *)
(* of executeImpl (argument normalisation, fold rows, fold iterations) are *)
(* taken one iteration per step.  Every step is a function from the state  *)
(* record to the next state record; the actions apply these functions.     *)
(***************************************************************************)
EXTENDS Integers, Sequences, FiniteSets, TLC

\* Bounds of the explored inputs.
MaxArgs == 4
MaxRows == 2
MaxRowLen == 2
ValMod == 5

VARIABLES impl, types, pc, error, rows, arguments, column_function, i,
          offsets_column, column_first_array, arrays, arr_cursor, irow,
          arr_next, accumulator, res, result, calls, path

vars == <<impl, types, pc, error, rows, arguments, column_function, i,
          offsets_column, column_first_array, arrays, arr_cursor, irow,
          arr_next, accumulator, res, result, calls, path>>

(***************************************************************************)
(* Small helpers.                                                          *)
(***************************************************************************)
Min(a, b) == IF a < b THEN a ELSE b

Last(s) == s[Len(s)]

RECURSIVE SeqSum(_)
SeqSum(s) == IF s = <<>> THEN 0 ELSE s[1] + SeqSum(Tail(s))

\* The k-th smallest member of a finite set of integers.
Nth(S, k) == CHOOSE p \in S : Cardinality({q \in S : q <= p}) = k

(***************************************************************************)
(* Data types (IDataType seen through checkAndGetDataType).                *)
(***************************************************************************)
Elems == {"u8", "other"}

ArrayType(e) == [t |-> "array", arity |-> 0, elem |-> e]

ScalarType(e) == [t |-> "scalar", arity |-> 0, elem |-> e]

FuncType(a, r) == [t |-> "func", arity |-> a, elem |-> r]

\* DataTypeArray::getNestedType with recursiveRemoveLowCardinality applied.
NestedType(ty) == ScalarType(ty.elem)

(***************************************************************************)
(* Columns (IColumn seen through checkAndGetColumn / typeid_cast).         *)
(* An array column is flat values plus cumulative offsets; offsets_id is   *)
(* the identity of its offsets buffer (getOffsetsPtr), 0 is the null       *)
(* pointer.  lc marks dictionary (LowCardinality) encoding of the values.  *)
(***************************************************************************)
NullColumn == [kind |-> "null"]

UnreadColumn == [kind |-> "unread"]

ValsColumn(v, l) == [kind |-> "vals", vals |-> v, lc |-> l]

ArrayColumn(id, offs, v, l) ==
    [kind |-> "array", offsets_id |-> id, offsets |-> offs, vals |-> v, lc |-> l]

ConstColumn(id, in, n) == [kind |-> "const", id |-> id, inner |-> in, size |-> n]

OtherColumn(n) == [kind |-> "other", size |-> n]

FuncColumn(f, n) == [kind |-> "func", f |-> f, size |-> n]

NullOffsets == [id |-> 0, data |-> <<>>]

\* IColumn::size
ColumnSize(col) ==
    CASE col.kind = "vals" -> Len(col.vals)
      [] col.kind = "array" -> Len(col.offsets)
      [] col.kind \in {"const", "other", "func"} -> col.size
      [] OTHER -> 0

\* (*col)[n], n counted from 0 as in the source.
ValueAt(col, n) ==
    IF col.kind = "const" THEN col.inner.vals[1] ELSE col.vals[n + 1]

\* IColumn::cut(start, length); ColumnConst::cut keeps the constant.
Cut(col, start, length) ==
    IF col.kind = "const"
    THEN [col EXCEPT !.size = length]
    ELSE ValsColumn(SubSeq(col.vals, start + 1, start + length), col.lc)

\* ColumnArray::getDataPtr
GetDataPtr(col) == ValsColumn(col.vals, col.lc)

\* ColumnArray::getOffsetsPtr
GetOffsetsPtr(col) == [id |-> col.offsets_id, data |-> col.offsets]

\* ColumnConst::convertToFullColumn for a constant array: the one row of
\* the wrapped array, size times.
ConvertToFullColumn(col) ==
    LET k == Len(col.inner.vals)
    IN  ArrayColumn(col.id,
                    [r \in 1..col.size |-> r * k],
                    [p \in 1..(col.size * k) |-> col.inner.vals[((p - 1) % k) + 1]],
                    col.inner.lc)

\* recursiveRemoveLowCardinality on an array column.
RecursiveRemoveLowCardinality(col) == [col EXCEPT !.lc = FALSE]

\* IColumn::convertToFullColumnIfLowCardinality
ConvertToFullColumnIfLowCardinality(col) == [col EXCEPT !.lc = FALSE]

(***************************************************************************)
(* The strategies (Impl).                                                  *)
(***************************************************************************)
MkImpl(n, e, b, f, o) ==
    [name |-> n, needExpression |-> e, needBoolean |-> b, isFolding |-> f,
     needOneArray |-> o]

Impls ==
    { MkImpl("arrayMap", TRUE, FALSE, FALSE, FALSE),
      MkImpl("arrayFilter", TRUE, TRUE, FALSE, FALSE),
      MkImpl("arrayCount", FALSE, TRUE, FALSE, FALSE),
      MkImpl("arrayMapOne", TRUE, FALSE, FALSE, TRUE),
      MkImpl("arrayFold", TRUE, FALSE, TRUE, FALSE) }

\* The flat positions of row r (1-based) of an offsets sequence.
RowRange(offs, r) == ((IF r = 1 THEN 0 ELSE offs[r - 1]) + 1)..offs[r]

\* Impl::execute(array, mapped).
ImplExecute(im, array, mapped) ==
    CASE im.name \in {"arrayMap", "arrayMapOne"} ->
           ArrayColumn(array.offsets_id, array.offsets, mapped.vals, FALSE)
      [] im.name = "arrayFilter" ->
           LET keep == {p \in 1..Len(array.vals) :
                          p <= Len(mapped.vals) /\ mapped.vals[p] # 0}
           IN  ArrayColumn(0,
                   [r \in 1..Len(array.offsets) |->
                       Cardinality({p \in keep : p <= array.offsets[r]})],
                   [k \in 1..Cardinality(keep) |-> array.vals[Nth(keep, k)]],
                   array.lc)
      [] im.name = "arrayCount" ->
           ValsColumn([r \in 1..Len(array.offsets) |->
                         Cardinality({p \in RowRange(array.offsets, r) :
                             p <= Len(mapped.vals) /\ mapped.vals[p] # 0})],
                      FALSE)
      [] OTHER -> mapped

(***************************************************************************)
(* The closure column (ColumnFunction).                                    *)
(***************************************************************************)
Closures == {"sum", "weighted"}

\* The lambda on one tuple of argument values.  Until a call first uses
\* its closure column the lambda in it is open ("lambda").
Closure(f, args) ==
    IF f = "sum"
    THEN SeqSum(args) % ValMod
    ELSE SeqSum([k \in 1..Len(args) |-> k * args[k]]) % ValMod

\* ColumnFunction::replicate(offsets): one copy per element.
Replicate(fn, offs) ==
    [kind |-> "func", f |-> fn.f,
     size |-> IF offs = <<>> THEN 0 ELSE Last(offs), captured |-> <<>>]

\* ColumnFunction::appendArguments(columns)
AppendArguments(fn, columns) == [fn EXCEPT !.captured = fn.captured \o columns]

\* ColumnFunction::reduce(): the lambda on every copy that has its arguments.
Reduce(fn) ==
    LET n == IF fn.captured = <<>> THEN 0
             ELSE Min(fn.size,
                      CHOOSE m \in {ColumnSize(fn.captured[k]) : k \in 1..Len(fn.captured)} :
                         \A k \in 1..Len(fn.captured) : m <= ColumnSize(fn.captured[k]))
    IN  ValsColumn([c \in 1..n |->
                      Closure(fn.f, [k \in 1..Len(fn.captured) |->
                                        ValueAt(fn.captured[k], c - 1)])],
                   \E k \in 1..Len(fn.captured) :
                       fn.captured[k].kind = "vals" /\ fn.captured[k].lc)

(***************************************************************************)
(* Type analysis: getLambdaArgumentTypes and getReturnTypeImpl.            *)
(***************************************************************************)
\* Mutant of ArgumentsToSkip: the seed of a fold is taken for an array.
ArgumentsToSkipNone(im) == 0

\* size_t arguments_to_skip = Impl::isFolding() ? 1 : 0;
ArgumentsToSkip(im) == IF im.isFolding THEN 1 ELSE 0

\* DataTypes nested_types(arguments.size() - 1);
NestedTypesSize(tys) == Len(tys) - 1

\* The positions (0-based, as in the source) that must hold an array type.
ArrayPositions(im, tys) ==
    {k + 1 : k \in 0..(NestedTypesSize(tys) - ArgumentsToSkip(im) - 1)}

\* The framework calls getLambdaArgumentTypes when an argument is a lambda.
HasLambda(tys) == \E k \in 1..Len(tys) : tys[k].t = "func"

GetLambdaArgumentTypes(im, tys) ==
    IF Len(tys) = 0 THEN "ArgumentCountMismatch"
    ELSE IF Len(tys) = 1 THEN "ArgumentCountMismatch"
    ELSE IF \E k \in ArrayPositions(im, tys) : tys[k + 1].t # "array"
    THEN "IllegalArgumentType"
    ELSE IF tys[1].t # "func" \/ tys[1].arity # NestedTypesSize(tys)
    THEN "IllegalArgumentType"
    ELSE "ok"

\* size_t min_args = Impl::needExpression() ? 2 : 1;
MinArgs(im) == IF im.needExpression THEN 2 ELSE 1

GetReturnTypeImpl(im, tys) ==
    IF Len(tys) < MinArgs(im) THEN "ArgumentCountMismatch"
    ELSE IF Len(tys) = 1
    THEN IF tys[1].t # "array" THEN "IllegalArgumentType"
         ELSE IF im.needBoolean /\ tys[1].elem # "u8" THEN "IllegalArgumentType"
         ELSE "ok"
    ELSE IF Len(tys) > 2 /\ im.needOneArray THEN "ArgumentCountMismatch"
    ELSE IF tys[1].t # "func" THEN "IllegalArgumentType"
    ELSE IF im.needBoolean /\ tys[1].elem # "u8" THEN "IllegalArgumentType"
    ELSE "ok"

(***************************************************************************)
(* The state record and the steps of one call.                             *)
(***************************************************************************)
St ==
    [impl |-> impl, types |-> types, pc |-> pc, error |-> error, rows |-> rows,
     arguments |-> arguments, column_function |-> column_function, i |-> i,
     offsets_column |-> offsets_column,
     column_first_array |-> column_first_array, arrays |-> arrays,
     arr_cursor |-> arr_cursor, irow |-> irow, arr_next |-> arr_next,
     accumulator |-> accumulator, res |-> res, result |-> result,
     calls |-> calls, path |-> path]

Becomes(n) ==
    /\ impl' = n.impl
    /\ types' = n.types
    /\ pc' = n.pc
    /\ error' = n.error
    /\ rows' = n.rows
    /\ arguments' = n.arguments
    /\ column_function' = n.column_function
    /\ i' = n.i
    /\ offsets_column' = n.offsets_column
    /\ column_first_array' = n.column_first_array
    /\ arrays' = n.arrays
    /\ arr_cursor' = n.arr_cursor
    /\ irow' = n.irow
    /\ arr_next' = n.arr_next
    /\ accumulator' = n.accumulator
    /\ res' = n.res
    /\ result' = n.result
    /\ calls' = n.calls
    /\ path' = n.path

\* The state of a call before type analysis.
NewCall(im, tys) ==
    [impl |-> im, types |-> tys, pc |-> "lambda_types", error |-> "none",
     rows |-> 0, arguments |-> <<>>, column_function |-> NullColumn, i |-> 0,
     offsets_column |-> NullOffsets, column_first_array |-> NullColumn,
     arrays |-> <<>>, arr_cursor |-> 0, irow |-> 0, arr_next |-> 0,
     accumulator |-> NullColumn, res |-> NullColumn, result |-> NullColumn,
     calls |-> <<>>, path |-> "none"]

\* throw Exception(..., code) out of type analysis / out of executeImpl.
Reject(s, by, code) == [s EXCEPT !.pc = by, !.error = code]

Throw(s, code) == [s EXCEPT !.pc = "thrown", !.error = code]

\* Undefined behaviour on a null pointer: the process dies with signal sig.
Crash(s, sig) == [s EXCEPT !.pc = "crashed", !.error = sig]

LambdaTypesStep(s) ==
    LET r == GetLambdaArgumentTypes(s.impl, s.types)
    IN  IF r = "ok" THEN [s EXCEPT !.pc = "return_type"]
        ELSE Reject(s, "lambda_rejected", r)

ReturnTypeStep(s) ==
    LET r == GetReturnTypeImpl(s.impl, s.types)
    IN  IF r = "ok" THEN [s EXCEPT !.pc = "block"]
        ELSE Reject(s, "return_rejected", r)

\* A block of n rows arrives.  Each argument's column is fixed when
\* executeImpl first reads it; a column never read cannot influence the call.
ReceiveBlockStep(s, n) ==
    [s EXCEPT !.pc = "execute", !.rows = n,
              !.arguments = [k \in 1..Len(s.types) |->
                                [column |-> UnreadColumn, type |-> s.types[k]]]]

\* arguments[k].column is col (k 0-based, as in the source).
WithColumn(s, k, col) == [s EXCEPT !.arguments[k + 1].column = col]

CheckAndGetColumnArray(col) == col.kind = "array"

CheckAndGetColumnConstArray(col) == col.kind = "const" /\ col.inner.kind = "array"

\* executeImpl, arguments.size() == 1.
ExecuteSingleStep(s0, col) ==
    LET s == WithColumn(s0, 0, col)
        column_array ==
            IF CheckAndGetColumnArray(col) THEN col
            ELSE IF CheckAndGetColumnConstArray(col) THEN ConvertToFullColumn(col)
            ELSE NullColumn
    IN  IF column_array = NullColumn THEN Throw(s, "IllegalColumn")
        ELSE [s EXCEPT !.pc = "done", !.path = "single",
                       !.column_first_array = column_array,
                       !.calls = <<[kind |-> "execute", array |-> column_array,
                                    mapped |-> GetDataPtr(column_array)]>>,
                       !.result = ImplExecute(s.impl, column_array,
                                              GetDataPtr(column_array))]

\* executeImpl, the closure argument and the locals before the loop.
ExecuteBeginStep(s0, col) ==
    LET s == WithColumn(s0, 0, col)
    IN  IF col.kind # "func" THEN Throw(s, "IllegalArgumentType")
        ELSE [s EXCEPT !.pc = "normalize", !.column_function = col, !.i = 1,
                       !.offsets_column = NullOffsets,
                       !.column_first_array = NullColumn, !.arrays = <<>>]

\* Mutant of NormalizeColumn: a constant array is not converted.
NormalizeColumnPlainOnly(col) ==
    IF CheckAndGetColumnArray(col) THEN col ELSE NullColumn

\* The array column behind one array argument: the column itself, a
\* constant array converted to a full column, or null.
NormalizeColumn(col) ==
    IF CheckAndGetColumnArray(col) THEN col
    ELSE IF CheckAndGetColumnConstArray(col)
    THEN RecursiveRemoveLowCardinality(ConvertToFullColumn(col))
    ELSE NullColumn

\* Mutant of OffsetsDiffer: only the total element counts are compared.
OffsetsDifferInTotal(column_array, offs) ==
    /\ column_array.offsets_id # offs.id
    /\ Len(column_array.vals) # (IF offs.data = <<>> THEN 0 ELSE Last(offs.data))

\* column_array->getOffsetsPtr() != offsets_column
\*   && column_array->getOffsets() != offsets_column.getData()
OffsetsDiffer(column_array, offs) ==
    /\ column_array.offsets_id # offs.id
    /\ column_array.offsets # offs.data

\* executeImpl, one iteration of the loop over the array arguments.
NormalizeStep(s0, col) ==
    LET s == WithColumn(s0, s0.i, col)
        array_type == s.arguments[s.i + 1].type
        column_array == NormalizeColumn(col)
    IN  IF column_array = NullColumn THEN Throw(s, "IllegalColumn")
        ELSE IF array_type.t # "array" THEN Throw(s, "IllegalArgumentType")
        ELSE IF s.offsets_column # NullOffsets
                /\ OffsetsDiffer(column_array, s.offsets_column)
        THEN Throw(s, "SizeMismatch")
        ELSE [s EXCEPT
                !.offsets_column = IF s.offsets_column = NullOffsets
                                   THEN GetOffsetsPtr(column_array) ELSE @,
                !.column_first_array = IF s.i = 1 THEN column_array ELSE @,
                !.arrays = Append(@, [column |-> GetDataPtr(column_array),
                                      type |-> NestedType(array_type)]),
                !.i = s.i + 1]

\* The signals a dereference of a null pointer ends the process with
\* (the fault itself, or the abort of an assertion on the pointer).
Signals == {"SIGSEGV", "SIGABRT"}

\* executeImpl after the loop: the seed joins the closure arguments, the
\* first array is dereferenced, and the fold path or the flat path is taken.
\* fn is the closure column of the call, whose lambda is first used on
\* these paths.
NormalizeEndStep(s00, fn, seed, sig) ==
    LET n == Len(s00.arguments)
        s0 == [WithColumn(s00, 0, fn) EXCEPT !.column_function = fn]
        s1 == IF s0.impl.isFolding THEN WithColumn(s0, n - 1, seed) ELSE s0
        s == IF s0.impl.isFolding
             THEN [s1 EXCEPT !.arrays = Append(@, s1.arguments[n])] ELSE s1
    IN  IF s.column_first_array = NullColumn THEN Crash(s, sig)
        ELSE IF s.impl.isFolding /\ Len(s.column_first_array.vals) > 0
        THEN [s EXCEPT !.pc = "row", !.path = "rowwise", !.arr_cursor = 0,
                       !.irow = 0, !.result = ValsColumn(<<>>, FALSE)]
        ELSE [s EXCEPT !.pc = "flat", !.path = "flat"]

\* One evaluation of the closure column, as seen by its collaborators.
Call(fn, cursor, array, mapped, offs) ==
    [offsets |-> offs, copies |-> fn.size, args |-> fn.captured,
     cursor |-> cursor, array |-> array, mapped |-> mapped]

\* Mutant of FlatStep: the arrays are bound to the closure in reverse order.
FlatStepReversed(s) ==
    LET offs == s.column_first_array.offsets
        n == Len(s.arrays)
        fn == AppendArguments(Replicate(s.column_function, offs),
                              [k \in 1..n |-> s.arrays[n + 1 - k].column])
        lambda_result == ConvertToFullColumnIfLowCardinality(Reduce(fn))
    IN  [s EXCEPT !.pc = "done",
                  !.calls = Append(@, Call(fn, 0, s.column_first_array,
                                           lambda_result, offs)),
                  !.result = ImplExecute(s.impl, s.column_first_array,
                                         lambda_result)]

\* executeImpl, the else branch: one broadcast over all elements.
FlatStep(s) ==
    LET offs == s.column_first_array.offsets
        fn == AppendArguments(Replicate(s.column_function, offs),
                              [k \in 1..Len(s.arrays) |-> s.arrays[k].column])
        lambda_result == ConvertToFullColumnIfLowCardinality(Reduce(fn))
    IN  [s EXCEPT !.pc = "done",
                  !.calls = Append(@, Call(fn, 0, s.column_first_array,
                                           lambda_result, offs)),
                  !.result = ImplExecute(s.impl, s.column_first_array,
                                         lambda_result)]

\* The fold loop over the rows: the head of one row.
FoldRowBeginStep(s) ==
    LET accumulator_column == s.arguments[Len(s.arguments)]
    IN  [s EXCEPT !.pc = "iter",
                  !.accumulator = [column |-> Cut(accumulator_column.column, s.irow, 1),
                                   type |-> accumulator_column.type],
                  !.res = NullColumn,
                  !.arr_next = s.column_first_array.offsets[s.irow + 1]]

\* One iteration of the loop over the elements of a row.
FoldIterationStep(s) ==
    LET offs == s.column_first_array.offsets
        iter_arrays == [k \in 1..(Len(s.arrays) - 1) |->
                           Cut(s.arrays[k].column, s.arr_cursor, 1)]
                       \o <<s.accumulator.column>>
        fn == AppendArguments(Replicate(s.column_function, offs), iter_arrays)
        lambda_result == ConvertToFullColumnIfLowCardinality(Reduce(fn))
        r == ImplExecute(s.impl, s.column_first_array, lambda_result)
    IN  [s EXCEPT !.calls = Append(@, Call(fn, s.arr_cursor, s.column_first_array,
                                           lambda_result, offs)),
                  !.res = r,
                  !.accumulator.column = r,
                  !.arr_cursor = s.arr_cursor + 1]

\* After the loop over the elements: result->insert((*res)[0]).
FoldRowEndStep(s, sig) ==
    IF s.res = NullColumn THEN Crash(s, sig)
    ELSE [s EXCEPT !.pc = "row", !.irow = s.irow + 1,
                   !.result.vals = Append(@, ValueAt(s.res, 0))]

\* return result;
FoldReturnStep(s) == [s EXCEPT !.pc = "done"]

(***************************************************************************)
(* The inputs.                                                             *)
(***************************************************************************)
FirstTypes ==
    {ArrayType(e) : e \in Elems} \cup {ScalarType("other")}
    \cup {FuncType(a, r) : a \in 0..(MaxArgs - 1), r \in Elems}

RestTypes == {ArrayType("other"), ScalarType("other"), FuncType(1, "other")}

TypeLists ==
    {<<>>} \cup UNION {{[k \in 1..n |-> IF k = 1 THEN f ELSE r[k]] :
                          f \in FirstTypes, r \in [2..n -> RestTypes]} :
                       n \in 1..MaxArgs}

OffsetsSeqs(n) ==
    {[r \in 1..n |-> SeqSum([q \in 1..r |-> lens[q]])] :
        lens \in [1..n -> 0..MaxRowLen]}

\* The flat values of the array argument at position k.
Data(total, k) == [p \in 1..total |-> (p - 1 + k) % ValMod]

\* The encodings explored for the values of the array argument at
\* position k: dictionary encoding on the first array argument only.
Encodings(k) == IF k <= 1 THEN BOOLEAN ELSE {FALSE}

\* The columns a block of n rows can hold for the array argument at
\* position k (0-based); first is the first array of the call, whose
\* offsets buffer a later array may share.
ArrayColumns(k, n, first) ==
    {ArrayColumn(k, offs, Data(IF n = 0 THEN 0 ELSE offs[n], k), l) :
        offs \in OffsetsSeqs(n), l \in Encodings(k)}
    \cup {ConstColumn(k, ArrayColumn(k, <<len>>, Data(len, k), l), n) :
            len \in 0..MaxRowLen, l \in Encodings(k)}
    \cup {OtherColumn(n)}
    \cup (IF first = NullColumn THEN {}
          ELSE {ArrayColumn(first.offsets_id, first.offsets,
                            Data(Len(first.vals), k), FALSE)})

\* The seed columns of a block of n rows: one value per row, whatever the
\* declared type of the seed is (the engine never looks inside the value).
SeedColumns(n) ==
    {ValsColumn([r \in 1..n |-> (2 * r + v) % ValMod], FALSE) : v \in 0..1}
    \cup {ConstColumn(0, ValsColumn(<<v>>, FALSE), n) : v \in 0..1}

(***************************************************************************)
(* The actions.                                                            *)
(***************************************************************************)
Init == \E im \in Impls, tys \in TypeLists :
           /\ impl = im
           /\ types = tys
           /\ pc = "lambda_types"
           /\ error = "none"
           /\ rows = 0
           /\ arguments = <<>>
           /\ column_function = NullColumn
           /\ i = 0
           /\ offsets_column = NullOffsets
           /\ column_first_array = NullColumn
           /\ arrays = <<>>
           /\ arr_cursor = 0
           /\ irow = 0
           /\ arr_next = 0
           /\ accumulator = NullColumn
           /\ res = NullColumn
           /\ result = NullColumn
           /\ calls = <<>>
           /\ path = "none"

getLambdaArgumentTypes ==
    /\ pc = "lambda_types"
    /\ HasLambda(types)
    /\ Becomes(LambdaTypesStep(St))

getReturnTypeImpl ==
    /\ \/ pc = "lambda_types" /\ ~HasLambda(types)
       \/ pc = "return_type"
    /\ Becomes(ReturnTypeStep(St))

ReceiveBlock ==
    /\ pc = "block"
    /\ \E n \in 0..MaxRows : Becomes(ReceiveBlockStep(St, n))

ExecuteSingle ==
    /\ pc = "execute"
    /\ Len(arguments) = 1
    /\ \E col \in ArrayColumns(0, rows, NullColumn) :
          Becomes(ExecuteSingleStep(St, col))

ExecuteBegin ==
    /\ pc = "execute"
    /\ Len(arguments) # 1
    /\ Becomes(ExecuteBeginStep(St, FuncColumn("lambda", rows)))

NormalizeArgument ==
    /\ pc = "normalize"
    /\ i < Len(arguments) - ArgumentsToSkip(impl)
    /\ \E col \in ArrayColumns(i, rows, column_first_array) :
          Becomes(NormalizeStep(St, col))

NormalizeEnd ==
    /\ pc = "normalize"
    /\ ~(i < Len(arguments) - ArgumentsToSkip(impl))
    /\ \E f \in Closures,
          seed \in (IF impl.isFolding THEN SeedColumns(rows) ELSE {UnreadColumn}),
          sig \in (IF column_first_array = NullColumn THEN Signals ELSE {"none"}) :
          Becomes(NormalizeEndStep(St, FuncColumn(f, rows), seed, sig))

FlatBroadcast ==
    /\ pc = "flat"
    /\ Becomes(FlatStep(St))

FoldRowBegin ==
    /\ pc = "row"
    /\ irow < ColumnSize(column_first_array)
    /\ Becomes(FoldRowBeginStep(St))

FoldIteration ==
    /\ pc = "iter"
    /\ arr_cursor < arr_next
    /\ Becomes(FoldIterationStep(St))

FoldRowEnd ==
    /\ pc = "iter"
    /\ ~(arr_cursor < arr_next)
    /\ \E sig \in (IF res = NullColumn THEN Signals ELSE {"none"}) :
          Becomes(FoldRowEndStep(St, sig))

FoldReturn ==
    /\ pc = "row"
    /\ ~(irow < ColumnSize(column_first_array))
    /\ Becomes(FoldReturnStep(St))

Next ==
    \/ getLambdaArgumentTypes
    \/ getReturnTypeImpl
    \/ ReceiveBlock
    \/ ExecuteSingle
    \/ ExecuteBegin
    \/ NormalizeArgument
    \/ NormalizeEnd
    \/ FlatBroadcast
    \/ FoldRowBegin
    \/ FoldIteration
    \/ FoldRowEnd
    \/ FoldReturn

Spec == Init /\ [][Next]_vars

(***************************************************************************)
(* The call a state belongs to, as the caller sees it.                     *)
(***************************************************************************)
Analysing == pc \in {"lambda_types", "return_type"}

Rejected == pc \in {"lambda_rejected", "return_rejected"}

Finished == pc \in {"done", "thrown", "crashed"}

\* The number of array arguments of a call with a closure.
NumArrays == Len(types) - 1 - (IF impl.isFolding THEN 1 ELSE 0)

\* The plain array column an array argument stands for.
PlainArray(col) ==
    IF col.kind = "const"
    THEN [ConvertToFullColumn(col) EXCEPT !.lc = FALSE]
    ELSE [col EXCEPT !.lc = FALSE]

\* Array argument a (1..NumArrays) of the call, as a plain array.
ArrayArg(a) == PlainArray(arguments[a + 1].column)

\* Row r (1-based) of the seed argument.
SeedOf(r) == ValueAt(arguments[Len(arguments)].column, r - 1)

\* The closure's array arguments at flat position p (1-based).
ElementAt(p) == [a \in 1..NumArrays |-> ArrayArg(a).vals[p]]

\* acc_0 = acc, acc_{j+1} = closure(e_j, acc_j) over the flat positions from..to.
RECURSIVE FoldLeft(_, _, _, _)
FoldLeft(f, from, to, acc) ==
    IF from > to THEN acc
    ELSE FoldLeft(f, from + 1, to, Closure(f, ElementAt(from) \o <<acc>>))

\* The left fold of row r of the call.
RowFold(r) ==
    LET offs == ArrayArg(1).offsets
    IN  FoldLeft(column_function.f, (IF r = 1 THEN 0 ELSE offs[r - 1]) + 1,
                 offs[r], SeedOf(r))

\* The rows whose loop over the elements has ended.
RowsFolded == IF pc = "crashed" THEN irow + 1 ELSE irow

\* C1: on the row-wise fold path, every row whose elements have been
\* consumed has emitted a value, and that value is the left fold of the
\* row's elements (accumulator last) started from the row's own seed.
C1_RowIsLeftFoldFromItsSeed ==
    path = "rowwise" =>
        \A r \in 1..RowsFolded :
            /\ r <= Len(result.vals)
            /\ result.vals[r] = RowFold(r)

\* The number of elements of row r (1-based) of the call.
RowLength(r) ==
    LET offs == ArrayArg(1).offsets
    IN  offs[r] - (IF r = 1 THEN 0 ELSE offs[r - 1])

\* The closure evaluations made for row r: those whose cursor is in the row.
CallsOfRow(r) ==
    {c \in 1..Len(calls) : calls[c].cursor + 1 \in RowRange(ArrayArg(1).offsets, r)}

\* C2: on the row-wise fold path, every row without elements whose (empty)
\* loop has ended has emitted its own seed, whatever its position, and the
\* closure was not evaluated for it.
C2_EmptyRowYieldsSeed ==
    path = "rowwise" =>
        \A r \in 1..RowsFolded :
            RowLength(r) = 0 =>
                /\ r <= Len(result.vals)
                /\ result.vals[r] = SeedOf(r)
                /\ CallsOfRow(r) = {}

\* C3: on the row-wise fold path the output holds exactly one value per row
\* whose elements have been consumed, and the call ends by returning one
\* value per input row.
C3_OneValuePerRow ==
    path = "rowwise" =>
        /\ Len(result.vals) = RowsFolded
        /\ Finished => pc = "done" /\ Len(result.vals) = rows

\* The least number of arguments an operation takes: the array alone, the
\* closure and an array, or the closure, an array and the seed.
MinArity(im) == IF im.isFolding THEN 3 ELSE IF im.needExpression THEN 2 ELSE 1

\* C7: a call with fewer arguments than the operation's minimum arity never
\* gets past type analysis, which rejects it (with ArgumentCountMismatch
\* where the operation's own minimum of one or two arguments is missed),
\* and a call that has passed the loop over its array arguments has a
\* first array.
C7_MinimumArityEnforced ==
    /\ Len(types) < MinArity(impl) /\ ~Analysing => Rejected
    /\ Len(types) < MinArity(impl) /\ ~impl.isFolding /\ Rejected =>
           error = "ArgumentCountMismatch"
    /\ pc \in {"flat", "row", "iter"} => column_first_array # NullColumn

\* C9: every closure evaluation of the row-wise fold path broadcasts the
\* closure over the offsets <<1>>, evaluates one copy on one-row slices,
\* and hands Impl::execute a one-row view of the first array; a finished
\* fold has evaluated the closure once per element.
C9_OneSyntheticRowPerIteration ==
    path = "rowwise" =>
        /\ \A c \in 1..Len(calls) :
              /\ calls[c].offsets = <<1>>
              /\ calls[c].copies = 1
              /\ \A k \in 1..Len(calls[c].args) : ColumnSize(calls[c].args[k]) = 1
              /\ ColumnSize(calls[c].array) = 1
        /\ pc = "done" => Len(calls) = Len(ArrayArg(1).vals)

\* The offset at which row r (0-based) of the first array begins.
RowStart(r) == IF r = 0 THEN 0 ELSE column_first_array.offsets[r]

\* C10: on the row-wise fold path the cursor is at the row's first offset
\* when the row begins, within the row during its loop and at the row's
\* last offset when it ends; the closure has seen the flat positions
\* 0, 1, 2, ... below the cursor once each, in this order; and the call
\* ends with the cursor at the last offset.
C10_CursorSweepsElementsOnce ==
    path = "rowwise" =>
        /\ pc = "row" => arr_cursor = RowStart(irow)
        /\ pc = "iter" => /\ RowStart(irow) <= arr_cursor
                          /\ arr_cursor <= arr_next
                          /\ arr_next = column_first_array.offsets[irow + 1]
        /\ Len(calls) = arr_cursor
        /\ \A c \in 1..Len(calls) : calls[c].cursor = c - 1
        /\ Finished => arr_cursor = Last(column_first_array.offsets)

\* The total number of elements of the call's rows.
TotalElements ==
    IF ArrayArg(1).offsets = <<>> THEN 0 ELSE Last(ArrayArg(1).offsets)

\* C4: a finished flat broadcast of an operation that is no fold has
\* evaluated the closure column once, with one copy per element; the
\* mapped column has one value per element, the value at flat position p
\* being the closure on the values of every array at p; and Impl::execute
\* got it together with the first array argument and its offsets.
C4_FlatBroadcastOncePerElement ==
    ~impl.isFolding /\ path = "flat" /\ pc = "done" =>
        /\ Len(calls) = 1
        /\ calls[1].offsets = ArrayArg(1).offsets
        /\ calls[1].copies = TotalElements
        /\ Len(calls[1].mapped.vals) = TotalElements
        /\ \A p \in 1..TotalElements :
              calls[1].mapped.vals[p] = Closure(column_function.f, ElementAt(p))
        /\ calls[1].array.offsets = ArrayArg(1).offsets
        /\ calls[1].array.vals = ArrayArg(1).vals

\* Witness of C4: a map over two zipped arrays of two rows, three elements.
C4_Witness ==
    /\ impl.name = "arrayMap" /\ path = "flat" /\ pc = "done"
    /\ NumArrays = 2 /\ rows = 2 /\ TotalElements = 3
    /\ column_function.f = "weighted"

\* The array arguments the call has read and found to be array columns.
ReadArrays ==
    {a \in 1..NumArrays : arguments[a + 1].column.kind \in {"array", "const"}}

\* Two array arguments differ in their offsets at some row.
OffsetsMismatch ==
    \E a, b \in ReadArrays : ArrayArg(a).offsets # ArrayArg(b).offsets

\* The call is executing with a closure, past its closure argument.
ZippingArrays == Len(arguments) >= 2 /\ pc \notin {"block", "execute"} /\ ~Analysing /\ ~Rejected

\* C5: in a call whose array arguments are array columns (plain or
\* constant), as soon as two of them differ in their offsets the call has
\* failed with SizeMismatch without a result, whatever their totals are;
\* and SizeMismatch is raised only when two arrays differ in their offsets
\* by value (the same offsets buffer, or equal offsets, never raise it).
C5_SizeMismatchIffOffsetsDiffer ==
    ZippingArrays =>
        /\ OffsetsMismatch =>
              pc = "thrown" /\ error = "SizeMismatch" /\ result = NullColumn
        /\ error = "SizeMismatch" => OffsetsMismatch

\* Witness of C5: SizeMismatch between two arrays of two rows each and the
\* same total number of elements.
C5_Witness ==
    /\ ZippingArrays /\ error = "SizeMismatch" /\ rows = 2
    /\ \E a \in ReadArrays :
          /\ ArrayArg(a).offsets # ArrayArg(1).offsets
          /\ Last(ArrayArg(a).offsets) = Last(ArrayArg(1).offsets)

\* The type list has, after the closure, the types getLambdaArgumentTypes
\* asks for: a function of as many arguments as there are arrays (and one
\* more for the accumulator of a fold), and an array in every array position.
LambdaAccepted ==
    /\ types[1].t = "func"
    /\ types[1].arity = NumArrays + (IF impl.isFolding THEN 1 ELSE 0)
    /\ \A a \in 1..NumArrays : types[a + 1].t = "array"

\* C8: of the calls with a lambda and at least two arguments,
\* getLambdaArgumentTypes lets through exactly those whose first argument
\* is a function of arity (number of arrays, plus one for a fold) and whose
\* array positions hold arrays; it rejects the others with
\* IllegalArgumentType; the type of a fold's seed plays no part.
C8_ClosureArityAndArrayTypes ==
    Len(types) >= 2 /\ HasLambda(types) =>
        /\ pc = "lambda_rejected" =>
              ~LambdaAccepted /\ error = "IllegalArgumentType"
        /\ pc \notin {"lambda_types", "lambda_rejected"} => LambdaAccepted

\* Witness of C8: a fold over two arrays with a seed that is no array has
\* passed getLambdaArgumentTypes.
C8_Witness ==
    /\ impl.isFolding /\ pc = "return_type" /\ Len(types) = 4
    /\ types[4].t = "scalar" /\ types[1].arity = 3

(***************************************************************************)
(* executeImpl run to its end on arguments that are all given.             *)
(***************************************************************************)
\* The next state of executeImpl; every column it reads is in s.arguments.
ExecuteStep(s) ==
    LET n == Len(s.arguments)
        skip == ArgumentsToSkip(s.impl)
    IN  CASE s.pc = "execute" ->
               IF n = 1 THEN ExecuteSingleStep(s, s.arguments[1].column)
               ELSE ExecuteBeginStep(s, s.arguments[1].column)
          [] s.pc = "normalize" ->
               IF s.i < n - skip
               THEN NormalizeStep(s, s.arguments[s.i + 1].column)
               ELSE NormalizeEndStep(s, s.arguments[1].column,
                                     s.arguments[n].column, "SIGSEGV")
          [] s.pc = "flat" -> FlatStep(s)
          [] s.pc = "row" ->
               IF s.irow < ColumnSize(s.column_first_array)
               THEN FoldRowBeginStep(s) ELSE FoldReturnStep(s)
          [] s.pc = "iter" ->
               IF s.arr_cursor < s.arr_next
               THEN FoldIterationStep(s) ELSE FoldRowEndStep(s, "SIGSEGV")
          [] OTHER -> s

RECURSIVE ExecuteImpl(_)
ExecuteImpl(s) ==
    IF s.pc \in {"done", "thrown", "crashed"} THEN s
    ELSE ExecuteImpl(ExecuteStep(s))

\* The positions (1-based) of the array arguments of the call.
ArrayArgumentPositions ==
    IF Len(arguments) = 1 THEN {1} ELSE {a + 1 : a \in 1..NumArrays}

\* The array argument at position k is a constant or dictionary-encoded array.
IsWrapped(k) ==
    \/ CheckAndGetColumnConstArray(arguments[k].column)
    \/ arguments[k].column.kind = "array" /\ arguments[k].column.lc

\* The same call with every constant or dictionary-encoded array argument
\* replaced by the plain array it stands for, before executeImpl.
MaterializedCall ==
    [NewCall(impl, types) EXCEPT
        !.pc = "execute", !.rows = rows,
        !.arguments =
            [k \in 1..Len(arguments) |->
                [column |-> IF k \in ArrayArgumentPositions /\ IsWrapped(k)
                            THEN PlainArray(arguments[k].column)
                            ELSE arguments[k].column,
                 type |-> arguments[k].type]]]

\* What a column holds, whatever its encoding and buffers.
ColumnValue(col) ==
    CASE col.kind = "array" -> <<"array", col.offsets, col.vals>>
      [] col.kind = "vals" -> <<"vals", col.vals>>
      [] OTHER -> <<"none">>

\* C6: a finished call with a constant or dictionary-encoded array argument
\* ended as the same call on the plain arrays ends (returned, threw the
\* same error, or died), with the same values in the result column; and
\* IllegalColumn was raised only for a column that is no array at all.
C6_WrappedArraysAsPlainArrays ==
    Finished /\ (\E k \in ArrayArgumentPositions : IsWrapped(k)) =>
        LET m == ExecuteImpl(MaterializedCall)
        IN  /\ m.pc = pc
            /\ pc = "thrown" => m.error = error
            /\ ColumnValue(m.result) = ColumnValue(result)
            /\ error = "IllegalColumn" =>
                  \E k \in ArrayArgumentPositions :
                      arguments[k].column.kind = "other"

\* Witness of C6: a fold over a constant array of two rows has returned.
C6_Witness ==
    /\ pc = "done" /\ path = "rowwise" /\ rows = 2
    /\ CheckAndGetColumnConstArray(arguments[2].column)
    /\ Len(calls) = 4

\* The seed argument of a fold, as one value per row.
SeedValues == [r \in 1..rows |-> SeedOf(r)]

\* A fold has passed the choice between the row-wise path and the flat one.
FoldPathChosen == impl.isFolding /\ path \in {"flat", "rowwise"}

\* C11: a fold leaves the row-wise path aside exactly when its rows hold
\* no element at all; the call then returns, and what it returns is the
\* seed column, one value per row; and a block whose first row is empty
\* while a later row is not is processed row-wise.
C11_ZeroTotalBypassReturnsSeed ==
    FoldPathChosen =>
        /\ path = "flat" <=> Len(column_first_array.vals) = 0
        /\ path = "flat" /\ pc = "done" =>
               ColumnValue(result) = <<"vals", SeedValues>>
        /\ /\ rows >= 2
           /\ column_first_array.offsets[1] = 0
           /\ Last(column_first_array.offsets) > 0
           => path = "rowwise"

====
